---- MODULE Spec2Model ----
(***************************************************************************)
(* A model of ELT: the snapshot-based HistoryTracker, the LabelingStore    *)
(* (labels, classes, class colors, aligned dataset), the mouse and         *)
(* keyboard handlers of the alignment view and the file dialogs.           *)
(*                                                                         *)
(* The specifications share the variables:                                 *)
(*   SpecHistory   one HistoryTracker driven by arbitrary calls            *)
(*   SpecCaller    one HistoryTracker driven by a caller that follows the  *)
(*                 usage of its header comment                             *)
(*   SpecLabeling  one LabelingStore driven by its mutators                *)
(*   SpecColors    the class operations of a LabelingStore                 *)
(*   SpecDataset   the aligned dataset of a LabelingStore                  *)
(*   SpecAlignment the clicks, correspondence gestures and key presses of  *)
(*                 the AlignmentView, the pan-zoom left alone              *)
(*   SpecTrackGestures the track gestures (click or pan) and key presses   *)
(*                 of the AlignmentView, without correspondences           *)
(*   SpecMarkerDrag the marker gestures (dragging a marker's handle),      *)
(*                 clicks and key presses of the AlignmentView             *)
(*   SpecDialogs   the keyboard shortcuts and toolbar buttons opening file *)
(*                 dialogs                                                 *)
(***************************************************************************)
EXTENDS Integers, Sequences, FiniteSets, TLC

VARIABLES
    undoHistory,      \* HistoryTracker._undoHistory
    redoHistory,      \* HistoryTracker._redoHistory
    currentSnapshot,  \* the snapshot of the current state of the tracker's caller
    call,             \* the last call made: operation, argument, return value, state before
    prev,             \* the call made before `call`
    classes,          \* LabelingStore.classes
    classColors,      \* LabelingStore.classColors
    classColormap,    \* LabelingStore.classColormap
    labelObjects,     \* the Label objects allocated so far (identity -> fields)
    labelsIndex,      \* LabelingStore._labelsIndex: the identities it holds
    currentClass,     \* labelingUiStore.currentClass
    labelingHistory,  \* projectStore's HistoryTracker of labeling snapshots
    currentTab,       \* projectUiStore.currentTab
    tracks,           \* projectStore.tracks
    alignedDataset_,  \* LabelingStore._alignedDataset
    labelingRead,     \* what the last read of alignedDataset on the labeling tab returned
    markerObjects,    \* the Marker objects allocated so far (identity -> fields)
    markers,          \* alignmentStore.markers: the identities it holds
    correspondences,  \* alignmentStore.correspondences
    correspondencesMade, \* the number of MarkerCorrespondence objects allocated so far
    selectedMarker,   \* projectUiStore.selectedMarker
    selectedCorrespondence, \* projectUiStore.selectedCorrespondence
    viewState,        \* AlignmentView.state
    drag,             \* the closure of the gesture started by startDragging
    referenceTrackPanZoom, \* projectUiStore.referenceTrackPanZoom
    trackPanZoom,     \* projectUiStore.getTrackPanZoom, by track id
    projectFileLocation, \* projectStore.projectFileLocation
    dialog            \* the file dialog that is open

vars == <<undoHistory, redoHistory, currentSnapshot, call, prev, classes, classColors, classColormap,
          labelObjects, labelsIndex, currentClass, labelingHistory,
          currentTab, tracks, alignedDataset_, labelingRead,
          markerObjects, markers, correspondences, correspondencesMade, selectedMarker,
          selectedCorrespondence, viewState, drag, referenceTrackPanZoom, trackPanZoom,
          projectFileLocation, dialog>>

historyVars == <<undoHistory, redoHistory, currentSnapshot>>
labelingVars == <<classes, classColors, classColormap, labelObjects, labelsIndex,
                  currentClass, labelingHistory>>
datasetVars == <<currentTab, tracks, alignedDataset_, labelingRead>>
alignmentVars == <<markerObjects, markers, correspondences, correspondencesMade,
                   selectedMarker, selectedCorrespondence, viewState, drag,
                   referenceTrackPanZoom, trackPanZoom>>
dialogVars == <<projectFileLocation, dialog>>

\* the variables outside the HistoryTracker and the labels and classes of the LabelingStore
otherVars == <<datasetVars, alignmentVars, dialogVars>>

(***************************************************************************)
(* Bounds.                                                                 *)
(***************************************************************************)
\* calls to add are made only while the undo history is shorter than this
MaxHistory == 3

\* JavaScript's null
null == "null"

\* JavaScript's undefined
undefined == "undefined"

\* the snapshot values handed to the tracker; Snapshot is a type parameter and
\* null is one of its values
Snapshots == {null, "s1", "s2"}

NoCall == [op |-> "none"]

\* null where an object is expected (a track, a dataset, a marker)
nullObject == [null |-> TRUE]

\* the dataset variables before any track is loaded and any dataset is read
DatasetIdle ==
    /\ currentTab = "file"
    /\ tracks = <<>>
    /\ alignedDataset_ = nullObject
    /\ labelingRead = nullObject

\* a marker identity that is null
nullMarker == 0

\* the state of a gesture when no gesture is under way
NoDrag == [kind |-> "none"]

\* the markers, selection, view and pan-zoom when no AlignmentView is modelled
AlignmentIdle ==
    /\ markerObjects = <<>>
    /\ markers = <<>>
    /\ correspondences = <<>>
    /\ correspondencesMade = 0
    /\ selectedMarker = nullMarker
    /\ selectedCorrespondence = nullObject
    /\ viewState = <<>>
    /\ drag = NoDrag
    /\ referenceTrackPanZoom = [rangeStart |-> 0, pixelsPerSecond |-> 1]
    /\ trackPanZoom = <<>>

\* the project file and dialogs when no dialog is modelled
DialogIdle ==
    /\ projectFileLocation = null
    /\ dialog = "none"

\* everything but the HistoryTracker and the labels and classes is idle
OthersIdle == DatasetIdle /\ AlignmentIdle /\ DialogIdle

\* the labels and classes when no LabelingStore is modelled
LabelingIdle ==
    /\ classes = <<>>
    /\ classColors = <<>>
    /\ classColormap = undefined
    /\ labelObjects = <<>>
    /\ labelsIndex = {}
    /\ currentClass = null
    /\ labelingHistory = [undo |-> <<>>, redo |-> <<>>]

HistoryIdle == undoHistory = <<>> /\ redoHistory = <<>> /\ currentSnapshot = null

(***************************************************************************)
(* HistoryTracker: a tracker is [undo |-> _undoHistory, redo |-> _redoHistory] *)
(***************************************************************************)
Last(s) == s[Len(s)]

ButLast(s) == SubSeq(s, 1, Len(s) - 1)

HistoryTracker == [undo |-> <<>>, redo |-> <<>>]

add_keepsRedo(h, item) == [undo |-> Append(h.undo, item), redo |-> h.redo]

add(h, item) == [undo |-> Append(h.undo, item), redo |-> <<>>]

undo_trims(h, current) ==
    IF Len(h.undo) - 1 >= 0
    THEN [undo |-> <<>>, redo |-> Append(h.redo, current), ret |-> Last(h.undo)]
    ELSE [undo |-> h.undo, redo |-> h.redo, ret |-> null]

undo_pushesWhenEmpty(h, current) ==
    IF Len(h.undo) - 1 >= 0
    THEN [undo |-> ButLast(h.undo), redo |-> Append(h.redo, current), ret |-> Last(h.undo)]
    ELSE [undo |-> h.undo, redo |-> Append(h.redo, current), ret |-> null]

\* the tracker after undo(current), with the value returned
undo(h, current) ==
    LET lastIndex == Len(h.undo) - 1 IN
    IF lastIndex >= 0
    THEN [undo |-> ButLast(h.undo), redo |-> Append(h.redo, current), ret |-> Last(h.undo)]
    ELSE [undo |-> h.undo, redo |-> h.redo, ret |-> null]

redo_returnsCurrent(h, current) ==
    IF Len(h.redo) - 1 >= 0
    THEN [undo |-> Append(h.undo, current), redo |-> ButLast(h.redo), ret |-> current]
    ELSE [undo |-> h.undo, redo |-> h.redo, ret |-> null]

redo_dropsCurrent(h, current) ==
    IF Len(h.redo) - 1 >= 0
    THEN [undo |-> h.undo, redo |-> ButLast(h.redo), ret |-> Last(h.redo)]
    ELSE [undo |-> h.undo, redo |-> h.redo, ret |-> null]

\* the tracker after redo(current), with the value returned
redo(h, current) ==
    LET lastIndex == Len(h.redo) - 1 IN
    IF lastIndex >= 0
    THEN [undo |-> Append(h.undo, current), redo |-> ButLast(h.redo), ret |-> Last(h.redo)]
    ELSE [undo |-> h.undo, redo |-> h.redo, ret |-> null]

canUndo(h) == Len(h.undo) > 0

canRndo(h) == Len(h.redo) > 0

HistoryTracker_reset(h) == [undo |-> <<>>, redo |-> <<>>]

tracker == [undo |-> undoHistory, redo |-> redoHistory]

\* the record of a call on the tracker
Called(op, arg, ret) ==
    [op |-> op, arg |-> arg, ret |-> ret, undoBefore |-> undoHistory, redoBefore |-> redoHistory]

Add(item) ==
    /\ Len(undoHistory) < MaxHistory
    /\ undoHistory' = add(tracker, item).undo
    /\ redoHistory' = add(tracker, item).redo
    /\ call' = Called("add", item, undefined)
    /\ prev' = call
    /\ UNCHANGED <<currentSnapshot, labelingVars, otherVars>>

Undo(current) ==
    /\ undoHistory' = undo(tracker, current).undo
    /\ redoHistory' = undo(tracker, current).redo
    /\ call' = Called("undo", current, undo(tracker, current).ret)
    /\ prev' = call
    /\ UNCHANGED <<currentSnapshot, labelingVars, otherVars>>

Redo(current) ==
    /\ undoHistory' = redo(tracker, current).undo
    /\ redoHistory' = redo(tracker, current).redo
    /\ call' = Called("redo", current, redo(tracker, current).ret)
    /\ prev' = call
    /\ UNCHANGED <<currentSnapshot, labelingVars, otherVars>>

CanUndo ==
    /\ call' = Called("canUndo", undefined, canUndo(tracker))
    /\ prev' = call
    /\ UNCHANGED <<historyVars, labelingVars, otherVars>>

CanRndo ==
    /\ call' = Called("canRndo", undefined, canRndo(tracker))
    /\ prev' = call
    /\ UNCHANGED <<historyVars, labelingVars, otherVars>>

Reset ==
    /\ undoHistory' = HistoryTracker_reset(tracker).undo
    /\ redoHistory' = HistoryTracker_reset(tracker).redo
    /\ call' = Called("reset", undefined, undefined)
    /\ prev' = call
    /\ UNCHANGED <<currentSnapshot, labelingVars, otherVars>>

InitHistory ==
    /\ undoHistory = HistoryTracker.undo
    /\ redoHistory = HistoryTracker.redo
    /\ currentSnapshot = null
    /\ call = NoCall
    /\ prev = NoCall
    /\ LabelingIdle
    /\ OthersIdle

NextHistory ==
    \/ \E item \in Snapshots : Add(item)
    \/ \E current \in Snapshots : Undo(current)
    \/ \E current \in Snapshots : Redo(current)
    \/ CanUndo
    \/ CanRndo
    \/ Reset

SpecHistory == InitHistory /\ [][NextHistory]_vars

(***************************************************************************)
(* A caller of the tracker that follows the usage of the header comment    *)
(* (lines 11-20): currentSnapshot is the snapshot of its current state.    *)
(***************************************************************************)
\* "When a user action happened, BEFORE making changes, take a snapshot and call
\* .add()": the action then changes the state to next
UserAction(next) ==
    /\ Len(undoHistory) < MaxHistory
    /\ undoHistory' = add(tracker, currentSnapshot).undo
    /\ redoHistory' = add(tracker, currentSnapshot).redo
    /\ currentSnapshot' = next
    /\ call' = Called("add", currentSnapshot, undefined)
    /\ prev' = call
    /\ UNCHANGED <<labelingVars, otherVars>>

\* "When undo, take a snapshot, call undo(currentSnapshot). ... If the returned
\* snapshot is null, which means history is empty, stop because we can't undo.
\* Otherwise, load the saved snapshot."
UserUndo ==
    LET r == undo(tracker, currentSnapshot) IN
    /\ undoHistory' = r.undo
    /\ redoHistory' = r.redo
    /\ currentSnapshot' = IF r.ret = null THEN currentSnapshot ELSE r.ret
    /\ call' = Called("undo", currentSnapshot, r.ret)
    /\ prev' = call
    /\ UNCHANGED <<labelingVars, otherVars>>

\* "When redo, (the same except calling redo)."
UserRedo ==
    LET r == redo(tracker, currentSnapshot) IN
    /\ undoHistory' = r.undo
    /\ redoHistory' = r.redo
    /\ currentSnapshot' = IF r.ret = null THEN currentSnapshot ELSE r.ret
    /\ call' = Called("redo", currentSnapshot, r.ret)
    /\ prev' = call
    /\ UNCHANGED <<labelingVars, otherVars>>

\* "Call reset when the history need to be discarded completely."
UserReset ==
    /\ undoHistory' = HistoryTracker_reset(tracker).undo
    /\ redoHistory' = HistoryTracker_reset(tracker).redo
    /\ call' = Called("reset", undefined, undefined)
    /\ prev' = call
    /\ UNCHANGED <<currentSnapshot, labelingVars, otherVars>>

InitCaller ==
    /\ undoHistory = HistoryTracker.undo
    /\ redoHistory = HistoryTracker.redo
    /\ currentSnapshot \in Snapshots
    /\ call = NoCall
    /\ prev = NoCall
    /\ LabelingIdle
    /\ OthersIdle

NextCaller ==
    \/ \E next \in Snapshots : UserAction(next)
    \/ UserUndo
    \/ UserRedo
    \/ UserReset

SpecCaller == InitCaller /\ [][NextCaller]_vars

(***************************************************************************)
(* LabelingStore.                                                          *)
(***************************************************************************)
\* the history holds at most this many labeling snapshots (SpecLabeling)
MaxRecorded == 3

\* the history holds at most this many labeling snapshots (SpecColors)
MaxClassOps == 4

\* at most this many Label objects are created
MaxLabels == 2

colorbrewer6 == <<"#a6cee3", "#b2df8a", "#fb9a99", "#fdbf6f", "#cab2d6", "#ffff99">>

d3category20 ==
    <<"#1f77b4", "#aec7e8", "#ff7f0e", "#ffbb78", "#2ca02c",
      "#98df8a", "#d62728", "#ff9896", "#9467bd", "#c5b0d5",
      "#8c564b", "#c49c94", "#e377c2", "#f7b6d2", "#7f7f7f",
      "#c7c7c7", "#bcbd22", "#dbdb8d", "#17becf", "#9edae5">>

\* the class count from which the 20-color palette is used
PaletteThreshold == 6

Range(f) == {f[x] : x \in DOMAIN f}

\* Array.indexOf: the first index (from 1) holding x, 0 when there is none (-1 in the code)
indexOf(seq, x) ==
    IF \E i \in 1..Len(seq) : seq[i] = x
    THEN CHOOSE i \in 1..Len(seq) : seq[i] = x /\ \A j \in 1..(i - 1) : seq[j] # x
    ELSE 0

\* Array.splice(index, 1)
splice1(seq, index) == SubSeq(seq, 1, index - 1) \o SubSeq(seq, index + 1, Len(seq))

\* the value of the field classColormap before updateColors first assigns it
undefinedColormap == [undefined |-> TRUE]

\* this.classColormap[name] is truthy
hasColor(cmap, name) == name \in DOMAIN cmap /\ cmap[name] # null

\* the first loop of updateColors: the colors kept from the previous colormap
keptColors(cls, cmap) ==
    [i \in 1..Len(cls) |->
        IF cmap # undefinedColormap /\ hasColor(cmap, cls[i]) THEN cmap[cls[i]] ELSE null]

\* usedColors after the first loop
keptUsed(cls, cmap) == SelectSeq(keptColors(cls, cmap), LAMBDA c : c # null)

\* the palette updateColors draws from
paletteFor(cls) == IF Len(cls) < PaletteThreshold THEN colorbrewer6 ELSE d3category20

\* the inner loop over the palette: the first color not in usedColors, null if all are used
firstUnused(palette, usedColors) ==
    IF \E j \in 1..Len(palette) : indexOf(usedColors, palette[j]) = 0
    THEN palette[CHOOSE j \in 1..Len(palette) :
                    /\ indexOf(usedColors, palette[j]) = 0
                    /\ \A k \in 1..(j - 1) : indexOf(usedColors, palette[k]) # 0]
    ELSE null

RECURSIVE assignColors(_, _, _, _, _)
\* the second loop of updateColors from index i on: classColors when it ends
assignColors(cls, palette, colors, usedColors, i) ==
    IF i > Len(cls) THEN colors
    ELSE IF colors[i] # null THEN assignColors(cls, palette, colors, usedColors, i + 1)
    ELSE IF cls[i] = "IGNORE"
         THEN assignColors(cls, palette, [colors EXCEPT ![i] = "#CCC"],
                           Append(usedColors, "#CCC"), i + 1)
    ELSE LET c == firstUnused(palette, usedColors) IN
         IF c # null
         THEN assignColors(cls, palette, [colors EXCEPT ![i] = c], Append(usedColors, c), i + 1)
         ELSE assignColors(cls, palette, colors, usedColors, i + 1)

\* the last loop of updateColors: later entries of a repeated name overwrite earlier ones
colormapOf(cls, colors) ==
    [n \in Range(cls) |->
        colors[CHOOSE i \in 1..Len(cls) : cls[i] = n /\ \A j \in (i + 1)..Len(cls) : cls[j] # n]]

updateColors_dropsKept(s) ==
    LET colors == assignColors(s.classes, paletteFor(s.classes),
                               [i \in 1..Len(s.classes) |-> null],
                               keptUsed(s.classes, s.classColormap), 1)
    IN [s EXCEPT !.classColors = colors, !.classColormap = colormapOf(s.classes, colors)]

updateColors_reusesKept(s) ==
    LET colors == assignColors(s.classes, paletteFor(s.classes),
                               keptColors(s.classes, s.classColormap), <<>>, 1)
    IN [s EXCEPT !.classColors = colors, !.classColormap = colormapOf(s.classes, colors)]

updateColors_alwaysSmallPalette(s) ==
    LET colors == assignColors(s.classes, colorbrewer6,
                               keptColors(s.classes, s.classColormap),
                               keptUsed(s.classes, s.classColormap), 1)
    IN [s EXCEPT !.classColors = colors, !.classColormap = colormapOf(s.classes, colors)]

\* the store after updateColors()
updateColors(s) ==
    LET colors == assignColors(s.classes, paletteFor(s.classes),
                               keptColors(s.classes, s.classColormap),
                               keptUsed(s.classes, s.classColormap), 1)
    IN [s EXCEPT !.classColors = colors, !.classColormap = colormapOf(s.classes, colors)]

\* the store after new LabelingStore(...)
LabelingStore ==
    updateColors([classes |-> <<"IGNORE", "Positive">>,
                  classColors |-> <<>>,
                  classColormap |-> undefinedColormap,
                  labelObjects |-> <<>>,
                  labelsIndex |-> {},
                  currentClass |-> null])

store ==
    [classes |-> classes, classColors |-> classColors, classColormap |-> classColormap,
     labelObjects |-> labelObjects, labelsIndex |-> labelsIndex, currentClass |-> currentClass]

\* the labels the index holds, by identity
labels(s) == [id \in s.labelsIndex |-> s.labelObjects[id]]

\* saveState(), copied: what a snapshot holds
saveState(s) == [labels |-> labels(s), classes |-> s.classes, classColormap |-> s.classColormap]

\* projectStore.recordLabelingSnapshot(): the history after it
recordLabelingSnapshot(h, s) == add(h, saveState(s))

LabelFields ==
    {"timestampStart", "timestampEnd", "className", "state",
     "suggestionConfidence", "suggestionGeneration"}

\* addLabel(label), label a new object
addLabel(s, label) ==
    [s EXCEPT !.labelObjects = Append(@, label),
              !.labelsIndex = @ \cup {Len(s.labelObjects) + 1}]

\* removeLabel(label), label the object with identity id
removeLabel(s, id) ==
    IF id \in s.labelsIndex THEN [s EXCEPT !.labelsIndex = @ \ {id}] ELSE s

\* updateLabel(label, newLabel): the fields newLabel defines are copied into the object
updateLabel(s, id, newLabel) ==
    [s EXCEPT !.labelObjects[id] =
        [f \in LabelFields |-> IF f \in DOMAIN newLabel THEN newLabel[f] ELSE @[f]]]

removeAllLabels(s) == [s EXCEPT !.labelsIndex = {}]

addClass_pushesAlways(s, className) ==
    updateColors([s EXCEPT !.classes = Append(@, className)])

addClass(s, className) ==
    IF indexOf(s.classes, className) = 0
    THEN updateColors([s EXCEPT !.classes = Append(@, className)])
    ELSE s

removeClass_keepsLabelsOfUnlisted(s, className) ==
    LET toRemove == {id \in s.labelsIndex : s.labelObjects[id].className = className}
        s1 == [s EXCEPT !.labelsIndex = @ \ toRemove]
        index == indexOf(s.classes, className)
    IN IF index >= 1
       THEN updateColors([s1 EXCEPT !.classes = splice1(@, index)])
       ELSE s

removeClass(s, className) ==
    LET toRemove == {id \in s.labelsIndex : s.labelObjects[id].className = className}
        s1 == [s EXCEPT !.labelsIndex = @ \ toRemove]
        index == indexOf(s.classes, className)
    IN IF index >= 1
       THEN updateColors([s1 EXCEPT !.classes = splice1(@, index)])
       ELSE s1

renameClass_overExisting(s, oldClassName, newClassName) ==
    LET s1 == [s EXCEPT !.labelObjects =
                   [id \in DOMAIN @ |->
                       IF id \in s.labelsIndex /\ @[id].className = oldClassName
                       THEN [@[id] EXCEPT !.className = newClassName]
                       ELSE @[id]]]
        index == indexOf(s.classes, oldClassName)
    IN IF index >= 1
       THEN [updateColors([s1 EXCEPT !.classes[index] = newClassName])
               EXCEPT !.currentClass = newClassName]
       ELSE s1

renameClass(s, oldClassName, newClassName) ==
    IF indexOf(s.classes, newClassName) = 0
    THEN LET s1 == [s EXCEPT !.labelObjects =
                        [id \in DOMAIN @ |->
                            IF id \in s.labelsIndex /\ @[id].className = oldClassName
                            THEN [@[id] EXCEPT !.className = newClassName]
                            ELSE @[id]]]
             index == indexOf(s.classes, oldClassName)
         IN IF index >= 1
            THEN [updateColors([s1 EXCEPT !.classes[index] = newClassName])
                    EXCEPT !.currentClass = newClassName]
            ELSE s1
    ELSE s

LabelingStore_reset_forgetsColors(s) ==
    LET s1 == updateColors([s EXCEPT !.labelsIndex = {}, !.classes = <<"IGNORE", "Positive">>,
                                     !.classColormap = undefinedColormap])
        nonIgnoreClases == SelectSeq(s1.classes, LAMBDA x : x # "IGNORE")
    IN [s1 EXCEPT !.currentClass =
            IF Len(nonIgnoreClases) > 0 THEN nonIgnoreClases[1] ELSE null]

\* the store after reset()
LabelingStore_reset(s) ==
    LET s1 == updateColors([s EXCEPT !.labelsIndex = {}, !.classes = <<"IGNORE", "Positive">>])
        nonIgnoreClases == SelectSeq(s1.classes, LAMBDA x : x # "IGNORE")
    IN [s1 EXCEPT !.currentClass =
            IF Len(nonIgnoreClases) > 0 THEN nonIgnoreClases[1] ELSE null]

(***************************************************************************)
(* The calls made on the LabelingStore.                                    *)
(***************************************************************************)
\* the class names users type (SpecColors)
ClassNames == {"IGNORE", "Positive", "c1", "c2", "c3", "c4"}

\* the class names users type (SpecLabeling)
LabelClassNames == {"IGNORE", "Positive", "c1"}

\* the Label objects callers create
NewLabels ==
    {[timestampStart |-> 0, timestampEnd |-> 2, className |-> c, state |-> "MANUAL",
      suggestionConfidence |-> 0, suggestionGeneration |-> 0] : c \in {"Positive", "c1"}}

\* the PartialLabel objects callers pass: a field left out is undefined
PartialLabels ==
    {<<>>,
     [className |-> "c1"],
     [className |-> "IGNORE"],
     [timestampStart |-> 1, timestampEnd |-> 3],
     [state |-> "CONFIRMED_BOTH", suggestionConfidence |-> 1, suggestionGeneration |-> 1]}

\* the store becomes s; the call is recorded with the store as it was before it
Becomes(op, s) ==
    /\ classes' = s.classes
    /\ classColors' = s.classColors
    /\ classColormap' = s.classColormap
    /\ labelObjects' = s.labelObjects
    /\ labelsIndex' = s.labelsIndex
    /\ currentClass' = s.currentClass
    /\ call' = [op |-> op, before |-> store]
    /\ prev' = call
    /\ UNCHANGED <<historyVars, otherVars>>

AddLabel(label) ==
    /\ Len(labelObjects) < MaxLabels
    /\ labelingHistory' = recordLabelingSnapshot(labelingHistory, store)
    /\ Becomes("addLabel", addLabel(store, label))

RemoveLabel(id) ==
    /\ id \in DOMAIN labelObjects
    /\ labelingHistory' = recordLabelingSnapshot(labelingHistory, store)
    /\ Becomes("removeLabel", removeLabel(store, id))

UpdateLabel(id, newLabel) ==
    /\ id \in DOMAIN labelObjects
    /\ labelingHistory' = recordLabelingSnapshot(labelingHistory, store)
    /\ Becomes("updateLabel", updateLabel(store, id, newLabel))

RemoveAllLabels ==
    /\ labelingHistory' = recordLabelingSnapshot(labelingHistory, store)
    /\ Becomes("removeAllLabels", removeAllLabels(store))

AddClass_snapshotAfter(className) ==
    /\ labelingHistory' = recordLabelingSnapshot(labelingHistory, addClass(store, className))
    /\ Becomes("addClass", addClass(store, className))

AddClass(className) ==
    /\ labelingHistory' = recordLabelingSnapshot(labelingHistory, store)
    /\ Becomes("addClass", addClass(store, className))

RemoveClass(className) ==
    /\ labelingHistory' = recordLabelingSnapshot(labelingHistory, store)
    /\ Becomes("removeClass", removeClass(store, className))

RenameClass(oldClassName, newClassName) ==
    /\ labelingHistory' = recordLabelingSnapshot(labelingHistory, store)
    /\ Becomes("renameClass", renameClass(store, oldClassName, newClassName))

LabelingReset ==
    /\ UNCHANGED labelingHistory
    /\ Becomes("reset", LabelingStore_reset(store))

InitLabeling ==
    /\ HistoryIdle
    /\ call = NoCall
    /\ prev = NoCall
    /\ classes = LabelingStore.classes
    /\ classColors = LabelingStore.classColors
    /\ classColormap = LabelingStore.classColormap
    /\ labelObjects = LabelingStore.labelObjects
    /\ labelsIndex = LabelingStore.labelsIndex
    /\ currentClass = LabelingStore.currentClass
    /\ labelingHistory = HistoryTracker
    /\ OthersIdle

\* a mutator runs only while the labeling history holds fewer than n snapshots
MayRecord(n) == Len(labelingHistory.undo) < n

NextLabeling ==
    \/ \E label \in NewLabels : MayRecord(MaxRecorded) /\ AddLabel(label)
    \/ \E id \in 1..MaxLabels : MayRecord(MaxRecorded) /\ RemoveLabel(id)
    \/ \E id \in 1..MaxLabels, newLabel \in PartialLabels :
            MayRecord(MaxRecorded) /\ UpdateLabel(id, newLabel)
    \/ MayRecord(MaxRecorded) /\ RemoveAllLabels
    \/ \E className \in LabelClassNames : MayRecord(MaxRecorded) /\ AddClass(className)
    \/ \E className \in LabelClassNames : MayRecord(MaxRecorded) /\ RemoveClass(className)
    \/ \E oldClassName, newClassName \in LabelClassNames :
            MayRecord(MaxRecorded) /\ RenameClass(oldClassName, newClassName)
    \/ LabelingReset

SpecLabeling == InitLabeling /\ [][NextLabeling]_vars

NextColors ==
    \/ \E className \in ClassNames : MayRecord(MaxClassOps) /\ AddClass(className)
    \/ \E className \in ClassNames : MayRecord(MaxClassOps) /\ RemoveClass(className)
    \/ \E oldClassName, newClassName \in ClassNames :
            MayRecord(MaxClassOps) /\ RenameClass(oldClassName, newClassName)

SpecColors == InitLabeling /\ [][NextColors]_vars

(***************************************************************************)
(* LabelingStore: the aligned dataset.                                     *)
(* A track is [referenceStart, referenceEnd, samples, dimensions], samples *)
(* the length of timeSeries[0].dimensions[0] and dimensions the number of  *)
(* columns of timeSeries[0]; times are whole seconds.  A sample rate is a  *)
(* fraction <<numerator, denominator>>.                                    *)
(***************************************************************************)
\* projectStore.tracks holds at most this many entries
MaxTracks == 2

\* the tracks loaded into the project: sample rates 3/2, 2/3 and 1/4
TrackValues ==
    {[referenceStart |-> 0, referenceEnd |-> 2, samples |-> 4, dimensions |-> 1],
     [referenceStart |-> 1, referenceEnd |-> 4, samples |-> 3, dimensions |-> 2],
     [referenceStart |-> 0, referenceEnd |-> 4, samples |-> 2, dimensions |-> 1]}

\* the values of projectStore.tracks: an entry may be null
TrackLists ==
    UNION {[1..n -> TrackValues \cup {nullObject}] : n \in 0..MaxTracks}

\* the tabs of the navigation column
Tabs == {"file", "alignment", "labeling"}

\* d3.min and d3.max of no value: undefined
undefinedTime == -1

d3min(S) == IF S = {} THEN undefinedTime ELSE CHOOSE x \in S : \A y \in S : x <= y

d3max(S) == IF S = {} THEN undefinedTime ELSE CHOOSE x \in S : \A y \in S : y <= x

\* Track.duration
duration(t) == t.referenceEnd - t.referenceStart

\* a / b <= c / d for fractions with positive denominators
RateLeq(q, r) == q[1] * r[2] <= r[1] * q[2]

\* (samples - 1) / duration of a track
sampleRate(t) == <<t.samples - 1, duration(t)>>

\* d3.max of the sample rates
maxRate(S) == CHOOSE r \in S : \A q \in S : RateLeq(q, r)

\* Math.ceil(x * r) for the whole number x and the fraction r
ceilTimes(x, r) == -((-(x * r[1])) \div r[2])

\* resampleColumn(d, ..., totalSamples): a column of totalSamples samples
resampleColumn(totalSamples) == totalSamples

\* the dataset of the tracks ts resampled to totalSamples samples each
datasetOf(ts, tMin, tMax, totalSamples) ==
    [sensors |->
        [i \in 1..Len(ts) |->
            [name |-> "aggregated",
             dimensions |-> [d \in 1..ts[i].dimensions |-> resampleColumn(totalSamples)],
             timestampStart |-> tMin,
             timestampEnd |-> tMax,
             sampleRate |-> <<totalSamples - 1, tMax - tMin>>]],
     timestampStart |-> tMin,
     timestampEnd |-> tMax]

makeNewAlignedDataset_minRate(trackList) ==
    LET tracksToMerge == SelectSeq(trackList, LAMBDA track : track # nullObject)
        tMin == d3min({t.referenceStart : t \in Range(tracksToMerge)})
        tMax == d3max({t.referenceEnd : t \in Range(tracksToMerge)})
    IN IF tracksToMerge = <<>> THEN datasetOf(<<>>, tMin, tMax, 0)
       ELSE datasetOf(tracksToMerge, tMin, tMax,
                ceilTimes(tMax - tMin,
                          CHOOSE r \in {sampleRate(t) : t \in Range(tracksToMerge)} :
                            \A t \in Range(tracksToMerge) : RateLeq(r, sampleRate(t))))

\* makeNewAlignedDataset(tracks); with no track to merge no sensor is made and
\* totalSamples (NaN) is not used
makeNewAlignedDataset(trackList) ==
    LET tracksToMerge == SelectSeq(trackList, LAMBDA track : track # nullObject)
        tMin == d3min({t.referenceStart : t \in Range(tracksToMerge)})
        tMax == d3max({t.referenceEnd : t \in Range(tracksToMerge)})
    IN IF tracksToMerge = <<>> THEN datasetOf(<<>>, tMin, tMax, 0)
       ELSE LET maxSampleRate == maxRate({sampleRate(t) : t \in Range(tracksToMerge)})
                totalSamples == ceilTimes(tMax - tMin, maxSampleRate)
            IN datasetOf(tracksToMerge, tMin, tMax, totalSamples)

alignedDataset_alwaysRecomputes(tab, trackList, cached) ==
    [cached |-> makeNewAlignedDataset(trackList), ret |-> makeNewAlignedDataset(trackList)]

\* get alignedDataset(): _alignedDataset after the read, and the value returned
alignedDataset(tab, trackList, cached) ==
    IF tab # "labeling"
    THEN [cached |-> cached, ret |-> cached]
    ELSE [cached |-> makeNewAlignedDataset(trackList), ret |-> makeNewAlignedDataset(trackList)]

\* a read of labelingStore.alignedDataset
ReadAlignedDataset ==
    LET r == alignedDataset(currentTab, tracks, alignedDataset_) IN
    /\ alignedDataset_' = r.cached
    /\ labelingRead' = IF currentTab = "labeling" THEN r.ret ELSE labelingRead
    /\ call' = [op |-> "alignedDataset", ret |-> r.ret, tab |-> currentTab, tracks |-> tracks,
                labelingReadBefore |-> labelingRead]
    /\ prev' = NoCall
    /\ UNCHANGED <<currentTab, tracks, historyVars, labelingVars, alignmentVars, dialogVars>>

\* the user switches to another tab
SwitchTab(tab) ==
    /\ tab # currentTab
    /\ currentTab' = tab
    /\ call' = [op |-> "switchTab"]
    /\ prev' = NoCall
    /\ UNCHANGED <<tracks, alignedDataset_, labelingRead, historyVars, labelingVars,
                   alignmentVars, dialogVars>>

\* tracks are loaded, deleted or realigned
SetTracks(trackList) ==
    /\ trackList # tracks
    /\ tracks' = trackList
    /\ call' = [op |-> "setTracks"]
    /\ prev' = NoCall
    /\ UNCHANGED <<currentTab, alignedDataset_, labelingRead, historyVars, labelingVars,
                   alignmentVars, dialogVars>>

InitDataset ==
    /\ HistoryIdle
    /\ LabelingIdle
    /\ DatasetIdle
    /\ AlignmentIdle
    /\ DialogIdle
    /\ call = NoCall
    /\ prev = NoCall

NextDataset ==
    \/ ReadAlignedDataset
    \/ \E tab \in Tabs : SwitchTab(tab)
    \/ \E trackList \in TrackLists : SetTracks(trackList)

SpecDataset == InitDataset /\ [][NextDataset]_vars

(***************************************************************************)
(* AlignmentView: track gestures, correspondence gestures, key presses.    *)
(* A Marker object is [track, localTimestamp] and is known by its identity,*)
(* its position in markerObjects; alignmentStore.markers lists identities. *)
(* A MarkerCorrespondence is [id, marker1, marker2].                      *)
(***************************************************************************)
\* at most this many Marker objects are allocated
MaxMarkers == 2

\* at most this many MarkerCorrespondence objects are allocated
MaxCorrespondences == 1

\* a pan is followed only while rangeStart stays within this distance of 0
MaxPan == 3

\* the reference track; it is not one of projectStore.tracks
referenceTrack == "ref"

\* projectStore.tracks of the alignment view, from top to bottom
projectTracks ==
    <<[id |-> "t1", isAlignedToReferenceTrack |-> TRUE, timestampStart |-> 1, timestampEnd |-> 2],
      [id |-> "t2", isAlignedToReferenceTrack |-> FALSE, timestampStart |-> 1, timestampEnd |-> 2]>>

\* stores.projectStore.tracks.map(t => t.id)
trackIds == [i \in 1..Len(projectTracks) |-> projectTracks[i].id]

\* the times a press on a track can map to
PressTimes == {0, 2, 3}

\* event.clientX of a press and of a move
PressX == {0}
MoveX == {2, 3}

\* the pps argument of onTrackMouseDown
PixelsPerSecond == {1}

\* getRelativePosition(event)
Positions == {[x |-> 1, y |-> 1]}

\* event.keyCode and event.srcElement
KeyCodes == {"BACKSPACE", "DELETE", "SPACE"}
SrcElements == {"body", "input"}

Abs(x) == IF x < 0 THEN -x ELSE x

\* this.setState(update): the fields of update replace those of the state
setState(state, update) ==
    [k \in DOMAIN state \cup DOMAIN update |->
        IF k \in DOMAIN update THEN update[k] ELSE state[k]]

\* new Marker(time, track)
Marker(time, track) == [track |-> track, localTimestamp |-> time]

\* projectUiStore.selectMarker and selectMarkerCorrespondence: the selection
\* <<selectedMarker, selectedCorrespondence>> holds one thing
selectMarker(marker) == <<marker, nullObject>>

selectMarkerCorrespondence(corr) == <<nullMarker, corr>>

\* alignmentStore.deleteMarker(marker): the markers left
deleteMarker(ms, marker) == SelectSeq(ms, LAMBDA m : m # marker)

\* alignmentStore.deleteMarkerCorrespondence(corr): the correspondences left
deleteMarkerCorrespondence(cs, corr) == SelectSeq(cs, LAMBDA c : c # corr)

\* findCandidateMarker(event): hovered is the data-marker-index of the event's
\* target, counted from 1, or 0 when the target is not a marker knob
findCandidateMarker(hovered) == IF hovered = 0 THEN nullMarker ELSE markers[hovered]

moveCandidate_anyOtherTrack(candidate, markerStart) ==
    IF candidate = markerStart THEN nullMarker
    ELSE IF candidate # nullMarker
    THEN LET trackIndex1 == indexOf(trackIds, markerObjects[markerStart].track)
             trackIndex2 == indexOf(trackIds, markerObjects[candidate].track)
         IN IF trackIndex2 # trackIndex1 THEN candidate ELSE nullMarker
    ELSE nullMarker

\* the candidate the move handler of a correspondence gesture settles on
moveCandidate(candidate, markerStart) ==
    IF candidate = markerStart THEN nullMarker
    ELSE IF candidate # nullMarker
    THEN LET trackIndex1 == indexOf(trackIds, markerObjects[markerStart].track)
             trackIndex2 == indexOf(trackIds, markerObjects[candidate].track)
         IN IF ~(trackIndex2 = trackIndex1 - 1 \/ trackIndex2 = trackIndex1 + 1)
            THEN nullMarker ELSE candidate
    ELSE nullMarker

hasMoved_notSticky(moved, x0, x1) == Abs(x1 - x0) >= 3

\* moved || Math.abs(x1 - x0) >= 3
hasMoved(moved, x0, x1) == moved \/ Abs(x1 - x0) >= 3

\* an event handled by the alignment view: the call record keeps the event, the
\* store operations the handler invoked and what the handler found of the state
Handled(op, event, calls, before) ==
    /\ call' = [op |-> op, event |-> event, calls |-> calls, before |-> before]
    /\ prev' = NoCall
    /\ UNCHANGED <<historyVars, labelingVars, datasetVars, dialogVars>>

\* onTrackMouseDown(event, track, time, pps), track the i-th of projectStore.tracks
TrackMouseDown(i, time, x, pps) ==
    LET track == projectTracks[i] IN
    /\ drag = NoDrag
    /\ drag' = IF time < track.timestampStart \/ time > track.timestampEnd THEN drag
               ELSE [kind |-> "track", track |-> i, time |-> time, pps |-> pps,
                     x0 |-> x, moved |-> FALSE, lastX |-> x,
                     rangeStart |-> trackPanZoom[track.id].rangeStart,
                     referenceRangeStart |-> referenceTrackPanZoom.rangeStart]
    /\ Handled("trackMouseDown", [track |-> i, time |-> time], <<>>, <<>>)
    /\ UNCHANGED <<markerObjects, markers, correspondences, correspondencesMade,
                   selectedMarker, selectedCorrespondence, viewState,
                   referenceTrackPanZoom, trackPanZoom>>

\* the move handler of the track gesture
TrackDragMove(x1) ==
    LET track == projectTracks[drag.track]
        moved == hasMoved(drag.moved, drag.x0, x1)
        referenceStart ==
            drag.referenceRangeStart - ((x1 - drag.x0) \div referenceTrackPanZoom.pixelsPerSecond)
        trackStart == drag.rangeStart - ((x1 - drag.x0) \div drag.pps)
    IN
    /\ drag.kind = "track"
    /\ drag' = [drag EXCEPT !.moved = moved, !.lastX = x1]
    /\ IF moved /\ track.isAlignedToReferenceTrack
       THEN /\ Abs(referenceStart) <= MaxPan
            /\ referenceTrackPanZoom' = [referenceTrackPanZoom EXCEPT !.rangeStart = referenceStart]
            /\ UNCHANGED trackPanZoom
       ELSE IF moved
       THEN /\ Abs(trackStart) <= MaxPan
            /\ trackPanZoom' = [trackPanZoom EXCEPT ![track.id] =
                                    [rangeStart |-> trackStart, pixelsPerSecond |-> drag.pps]]
            /\ UNCHANGED referenceTrackPanZoom
       ELSE UNCHANGED <<referenceTrackPanZoom, trackPanZoom>>
    /\ Handled("trackMove", [x1 |-> x1], <<>>, [moved |-> drag.moved])
    /\ UNCHANGED <<markerObjects, markers, correspondences, correspondencesMade,
                   selectedMarker, selectedCorrespondence, viewState>>

\* the release handler of the track gesture
TrackDragUp ==
    LET marker == Len(markerObjects) + 1 IN
    /\ drag.kind = "track"
    /\ drag' = NoDrag
    /\ IF ~drag.moved
       THEN /\ Len(markerObjects) < MaxMarkers
            /\ markerObjects' =
                Append(markerObjects, Marker(drag.time, projectTracks[drag.track].id))
            /\ markers' = Append(markers, marker)
            /\ selectedMarker' = selectMarker(marker)[1]
            /\ selectedCorrespondence' = selectMarker(marker)[2]
            /\ Handled("trackUp", [x |-> drag.lastX],
                       <<[op |-> "addMarker", marker |-> marker],
                         [op |-> "selectMarker", marker |-> marker]>>,
                       [drag |-> drag, markers |-> markers])
       ELSE /\ UNCHANGED <<markerObjects, markers, selectedMarker, selectedCorrespondence>>
            /\ Handled("trackUp", [x |-> drag.lastX], <<>>,
                       [drag |-> drag, markers |-> markers])
    /\ UNCHANGED <<correspondences, correspondencesMade, viewState,
                   referenceTrackPanZoom, trackPanZoom>>

\* a marker is placed on the reference track, by the reference track's own view
AddReferenceMarker(time) ==
    /\ drag = NoDrag
    /\ Len(markerObjects) < MaxMarkers
    /\ markerObjects' = Append(markerObjects, Marker(time, referenceTrack))
    /\ markers' = Append(markers, Len(markerObjects) + 1)
    /\ Handled("addReferenceMarker", [time |-> time],
               <<[op |-> "addMarker", marker |-> Len(markerObjects) + 1]>>, <<>>)
    /\ UNCHANGED <<correspondences, correspondencesMade, selectedMarker,
                   selectedCorrespondence, viewState, drag, referenceTrackPanZoom,
                   trackPanZoom>>

\* startCreatingCorrespondence(marker, knob, event), marker the i-th of
\* alignmentStore.markers
StartCreatingCorrespondence(i, knob) ==
    LET marker == markers[i] IN
    /\ drag = NoDrag
    /\ selectedMarker' = selectMarker(marker)[1]
    /\ selectedCorrespondence' = selectMarker(marker)[2]
    /\ viewState' = setState(viewState,
                        [isCreatingCorrespondence |-> TRUE, currentPosition |-> nullObject,
                         markerStartKnob |-> knob, markerStart |-> marker,
                         markerTarget |-> nullMarker])
    /\ drag' = [kind |-> "correspondence", marker |-> marker]
    /\ Handled("startCreatingCorrespondence", [marker |-> marker],
               <<[op |-> "selectMarker", marker |-> marker]>>, <<>>)
    /\ UNCHANGED <<markerObjects, markers, correspondences, correspondencesMade,
                   referenceTrackPanZoom, trackPanZoom>>

\* the move handler of the correspondence gesture
CorrespondenceDragMove(hovered, position) ==
    /\ drag.kind = "correspondence"
    /\ viewState' = setState(viewState,
                        [isCreatingCorrespondence |-> TRUE, markerStart |-> drag.marker,
                         markerTarget |-> moveCandidate(findCandidateMarker(hovered),
                                                        viewState.markerStart),
                         currentPosition |-> position])
    /\ Handled("correspondenceMove", [hovered |-> findCandidateMarker(hovered)], <<>>, <<>>)
    /\ UNCHANGED <<markerObjects, markers, correspondences, correspondencesMade,
                   selectedMarker, selectedCorrespondence, drag, referenceTrackPanZoom,
                   trackPanZoom>>

CorrespondenceDragUp_keepsSelection ==
    LET marker == drag.marker
        lastCandidate == viewState.markerTarget
        corr == [id |-> correspondencesMade + 1, marker1 |-> marker, marker2 |-> lastCandidate]
    IN
    /\ drag.kind = "correspondence"
    /\ drag' = NoDrag
    /\ viewState' = setState(viewState,
                        [isCreatingCorrespondence |-> FALSE, markerStartKnob |-> null,
                         currentPosition |-> nullObject, markerStart |-> nullMarker,
                         markerTarget |-> nullMarker])
    /\ IF lastCandidate # marker /\ lastCandidate # nullMarker
       THEN /\ correspondencesMade < MaxCorrespondences
            /\ correspondences' = Append(correspondences, corr)
            /\ correspondencesMade' = correspondencesMade + 1
            /\ UNCHANGED <<selectedMarker, selectedCorrespondence>>
            /\ Handled("correspondenceUp", [marker |-> marker],
                       <<[op |-> "addMarkerCorrespondence", correspondence |-> corr]>>,
                       [markerTarget |-> lastCandidate, correspondences |-> correspondences])
       ELSE /\ UNCHANGED <<correspondences, correspondencesMade, selectedMarker,
                           selectedCorrespondence>>
            /\ Handled("correspondenceUp", [marker |-> marker], <<>>,
                       [markerTarget |-> lastCandidate, correspondences |-> correspondences])
    /\ UNCHANGED <<markerObjects, markers, referenceTrackPanZoom, trackPanZoom>>

\* the release handler of the correspondence gesture
CorrespondenceDragUp ==
    LET marker == drag.marker
        lastCandidate == viewState.markerTarget
        corr == [id |-> correspondencesMade + 1, marker1 |-> marker, marker2 |-> lastCandidate]
    IN
    /\ drag.kind = "correspondence"
    /\ drag' = NoDrag
    /\ viewState' = setState(viewState,
                        [isCreatingCorrespondence |-> FALSE, markerStartKnob |-> null,
                         currentPosition |-> nullObject, markerStart |-> nullMarker,
                         markerTarget |-> nullMarker])
    /\ IF lastCandidate # marker /\ lastCandidate # nullMarker
       THEN /\ correspondencesMade < MaxCorrespondences
            /\ correspondences' = Append(correspondences, corr)
            /\ correspondencesMade' = correspondencesMade + 1
            /\ selectedMarker' = selectMarkerCorrespondence(corr)[1]
            /\ selectedCorrespondence' = selectMarkerCorrespondence(corr)[2]
            /\ Handled("correspondenceUp", [marker |-> marker],
                       <<[op |-> "addMarkerCorrespondence", correspondence |-> corr],
                         [op |-> "selectMarkerCorrespondence", correspondence |-> corr]>>,
                       [markerTarget |-> lastCandidate, correspondences |-> correspondences])
       ELSE /\ UNCHANGED <<correspondences, correspondencesMade, selectedMarker,
                           selectedCorrespondence>>
            /\ Handled("correspondenceUp", [marker |-> marker], <<>>,
                       [markerTarget |-> lastCandidate, correspondences |-> correspondences])
    /\ UNCHANGED <<markerObjects, markers, referenceTrackPanZoom, trackPanZoom>>

\* a click on the i-th correspondence
CorrespondenceClick(i) ==
    /\ drag = NoDrag
    /\ selectedCorrespondence # correspondences[i]
    /\ selectedMarker' = selectMarkerCorrespondence(correspondences[i])[1]
    /\ selectedCorrespondence' = selectMarkerCorrespondence(correspondences[i])[2]
    /\ Handled("correspondenceClick", [correspondence |-> correspondences[i]],
               <<[op |-> "selectMarkerCorrespondence", correspondence |-> correspondences[i]]>>,
               <<>>)
    /\ UNCHANGED <<markerObjects, markers, correspondences, correspondencesMade, viewState,
                   drag, referenceTrackPanZoom, trackPanZoom>>

KeyDown_anySource(keyCode, srcElement) ==
    /\ IF keyCode \in {"BACKSPACE", "DELETE"}
       THEN IF selectedMarker # nullMarker
            THEN /\ markers' = deleteMarker(markers, selectedMarker)
                 /\ Handled("keyDown", [keyCode |-> keyCode, srcElement |-> srcElement],
                            <<[op |-> "deleteMarker", marker |-> selectedMarker]>>,
                            [markers |-> markers, correspondences |-> correspondences])
                 /\ UNCHANGED correspondences
            ELSE IF selectedCorrespondence # nullObject
            THEN /\ correspondences' =
                    deleteMarkerCorrespondence(correspondences, selectedCorrespondence)
                 /\ Handled("keyDown", [keyCode |-> keyCode, srcElement |-> srcElement],
                            <<[op |-> "deleteMarkerCorrespondence",
                               correspondence |-> selectedCorrespondence]>>,
                            [markers |-> markers, correspondences |-> correspondences])
                 /\ UNCHANGED markers
            ELSE /\ Handled("keyDown", [keyCode |-> keyCode, srcElement |-> srcElement], <<>>,
                            [markers |-> markers, correspondences |-> correspondences])
                 /\ UNCHANGED <<markers, correspondences>>
       ELSE /\ Handled("keyDown", [keyCode |-> keyCode, srcElement |-> srcElement], <<>>,
                       [markers |-> markers, correspondences |-> correspondences])
            /\ UNCHANGED <<markers, correspondences>>
    /\ UNCHANGED <<markerObjects, correspondencesMade, selectedMarker, selectedCorrespondence,
                   viewState, drag, referenceTrackPanZoom, trackPanZoom>>

\* onKeyDown(event)
KeyDown(keyCode, srcElement) ==
    /\ IF srcElement = "body" /\ keyCode \in {"BACKSPACE", "DELETE"}
       THEN IF selectedMarker # nullMarker
            THEN /\ markers' = deleteMarker(markers, selectedMarker)
                 /\ Handled("keyDown", [keyCode |-> keyCode, srcElement |-> srcElement],
                            <<[op |-> "deleteMarker", marker |-> selectedMarker]>>,
                            [markers |-> markers, correspondences |-> correspondences])
                 /\ UNCHANGED correspondences
            ELSE IF selectedCorrespondence # nullObject
            THEN /\ correspondences' =
                    deleteMarkerCorrespondence(correspondences, selectedCorrespondence)
                 /\ Handled("keyDown", [keyCode |-> keyCode, srcElement |-> srcElement],
                            <<[op |-> "deleteMarkerCorrespondence",
                               correspondence |-> selectedCorrespondence]>>,
                            [markers |-> markers, correspondences |-> correspondences])
                 /\ UNCHANGED markers
            ELSE /\ Handled("keyDown", [keyCode |-> keyCode, srcElement |-> srcElement], <<>>,
                            [markers |-> markers, correspondences |-> correspondences])
                 /\ UNCHANGED <<markers, correspondences>>
       ELSE /\ Handled("keyDown", [keyCode |-> keyCode, srcElement |-> srcElement], <<>>,
                       [markers |-> markers, correspondences |-> correspondences])
            /\ UNCHANGED <<markers, correspondences>>
    /\ UNCHANGED <<markerObjects, correspondencesMade, selectedMarker, selectedCorrespondence,
                   viewState, drag, referenceTrackPanZoom, trackPanZoom>>

InitAlignment ==
    /\ HistoryIdle
    /\ LabelingIdle
    /\ DatasetIdle
    /\ DialogIdle
    /\ markerObjects = <<>>
    /\ markers = <<>>
    /\ correspondences = <<>>
    /\ correspondencesMade = 0
    /\ selectedMarker = nullMarker
    /\ selectedCorrespondence = nullObject
    /\ viewState = <<>>
    /\ drag = NoDrag
    /\ referenceTrackPanZoom = [rangeStart |-> 0, pixelsPerSecond |-> 1]
    /\ trackPanZoom = [id \in Range(trackIds) |-> [rangeStart |-> 0, pixelsPerSecond |-> 1]]
    /\ call = NoCall
    /\ prev = NoCall

\* clicks on tracks, correspondence gestures, clicks on correspondences and key
\* presses; no track gesture moves, so that no pan-zoom changes
NextAlignment ==
    \/ \E i \in 1..Len(projectTracks), time \in PressTimes, x \in PressX,
          pps \in PixelsPerSecond : TrackMouseDown(i, time, x, pps)
    \/ TrackDragUp
    \/ \E time \in {1} : AddReferenceMarker(time)
    \/ \E i \in 1..Len(markers), knob \in {"top", "bottom"} : StartCreatingCorrespondence(i, knob)
    \/ \E hovered \in 0..Len(markers), position \in Positions :
          CorrespondenceDragMove(hovered, position)
    \/ CorrespondenceDragUp
    \/ \E i \in 1..Len(correspondences) : CorrespondenceClick(i)
    \/ \E keyCode \in KeyCodes, srcElement \in SrcElements : KeyDown(keyCode, srcElement)

SpecAlignment == InitAlignment /\ [][NextAlignment]_vars

\* track gestures with their moves, and key presses
NextTrackGestures ==
    \/ \E i \in 1..Len(projectTracks), time \in PressTimes, x \in PressX,
          pps \in PixelsPerSecond : TrackMouseDown(i, time, x, pps)
    \/ \E x1 \in MoveX : TrackDragMove(x1)
    \/ TrackDragUp
    \/ \E keyCode \in KeyCodes, srcElement \in SrcElements : KeyDown(keyCode, srcElement)

SpecTrackGestures == InitAlignment /\ [][NextTrackGestures]_vars

(***************************************************************************)
(* The marker handle of AlignmentView.renderMarkers: dragging a marker.    *)
(* The closure of the gesture is [kind, marker, isFirstUpdate]; its field  *)
(* updates lists the updateMarker calls the move handler has made so far.  *)
(***************************************************************************)
\* a marker gesture is followed for at most this many move events
MaxMoves == 3

\* track.timeSeries[0].timestampStart/End and track.referenceStart/End, by track id
trackBounds ==
    [ref |-> [timestampStart |-> 0, timestampEnd |-> 4, referenceStart |-> 0, referenceEnd |-> 4],
     t1 |-> [timestampStart |-> 1, timestampEnd |-> 2, referenceStart |-> 1, referenceEnd |-> 2],
     t2 |-> [timestampStart |-> 1, timestampEnd |-> 2, referenceStart |-> 2, referenceEnd |-> 3]]

\* stores.projectStore.isReferenceTrack(track)
isReferenceTrack(track) == track = referenceTrack

\* stores.projectUiStore.getTrackPanZoom(track)
getTrackPanZoom(track) ==
    IF isReferenceTrack(track) THEN referenceTrackPanZoom ELSE trackPanZoom[track]

\* getMarkerLayout(marker, layoutMap).xScaleInvert(xx):
\* sSignalToReference.invert(sReferenceToPixel.invert(xx))
xScaleInvert(marker, xx) ==
    LET track == markerObjects[marker].track
        alignmentState == getTrackPanZoom(track)
        b == trackBounds[track]
        reference == alignmentState.rangeStart + (xx \div alignmentState.pixelsPerSecond)
    IN b.timestampStart
         + (((reference - b.referenceStart) * (b.timestampEnd - b.timestampStart))
               \div (b.referenceEnd - b.referenceStart))

\* alignmentStore.updateMarker(marker, newLocalTimestamp, recompute, recordState):
\* the Marker objects afterwards
updateMarker(objects, marker, newLocalTimestamp) ==
    [objects EXCEPT ![marker].localTimestamp = newLocalTimestamp]

\* the record of one call of alignmentStore.updateMarker
UpdateMarkerCall(marker, newT, recompute, isFirstUpdate) ==
    [op |-> "updateMarker", marker |-> marker, newT |-> newT, recompute |-> recompute,
     isFirstUpdate |-> isFirstUpdate]

\* onMouseDown of the handle of marker, the i-th of alignmentStore.markers
MarkerMouseDown(i) ==
    LET marker == markers[i] IN
    /\ drag = NoDrag
    /\ selectedMarker' = selectMarker(marker)[1]
    /\ selectedCorrespondence' = selectMarker(marker)[2]
    /\ drag' = [kind |-> "marker", marker |-> marker, isFirstUpdate |-> TRUE, updates |-> <<>>]
    /\ Handled("markerMouseDown", [marker |-> marker],
               <<[op |-> "selectMarker", marker |-> marker]>>, <<>>)
    /\ UNCHANGED <<markerObjects, markers, correspondences, correspondencesMade, viewState,
                   referenceTrackPanZoom, trackPanZoom>>

MarkerDragMove_keepsFirstUpdate(x) ==
    LET marker == drag.marker
        newT == xScaleInvert(marker, x)
        update == UpdateMarkerCall(marker, newT, FALSE, drag.isFirstUpdate)
    IN
    /\ drag.kind = "marker"
    /\ Len(drag.updates) < MaxMoves
    /\ markerObjects' = updateMarker(markerObjects, marker, newT)
    /\ drag' = [drag EXCEPT !.updates = Append(@, update)]
    /\ Handled("markerMove", [x |-> x],
               <<update,
                 IF isReferenceTrack(markerObjects[marker].track)
                 THEN [op |-> "setReferenceTrackTimeCursor", time |-> newT]
                 ELSE [op |-> "setTimeCursor", track |-> markerObjects[marker].track,
                       time |-> newT]>>,
               [updates |-> drag.updates])
    /\ UNCHANGED <<markers, correspondences, correspondencesMade, selectedMarker,
                   selectedCorrespondence, viewState, referenceTrackPanZoom, trackPanZoom>>

\* the move handler of the marker gesture
MarkerDragMove(x) ==
    LET marker == drag.marker
        newT == xScaleInvert(marker, x)
        update == UpdateMarkerCall(marker, newT, FALSE, drag.isFirstUpdate)
    IN
    /\ drag.kind = "marker"
    /\ Len(drag.updates) < MaxMoves
    /\ markerObjects' = updateMarker(markerObjects, marker, newT)
    /\ drag' = [drag EXCEPT !.isFirstUpdate = FALSE, !.updates = Append(@, update)]
    /\ Handled("markerMove", [x |-> x],
               <<update,
                 IF isReferenceTrack(markerObjects[marker].track)
                 THEN [op |-> "setReferenceTrackTimeCursor", time |-> newT]
                 ELSE [op |-> "setTimeCursor", track |-> markerObjects[marker].track,
                       time |-> newT]>>,
               [updates |-> drag.updates])
    /\ UNCHANGED <<markers, correspondences, correspondencesMade, selectedMarker,
                   selectedCorrespondence, viewState, referenceTrackPanZoom, trackPanZoom>>

\* the release handler of the marker gesture
MarkerDragUp ==
    LET marker == drag.marker
        localTimestamp == markerObjects[marker].localTimestamp
    IN
    /\ drag.kind = "marker"
    /\ drag' = NoDrag
    /\ markerObjects' = updateMarker(markerObjects, marker, localTimestamp)
    /\ Handled("markerUp", [marker |-> marker],
               <<UpdateMarkerCall(marker, localTimestamp, TRUE, FALSE)>>,
               [updates |-> drag.updates, localTimestamp |-> localTimestamp])
    /\ UNCHANGED <<markers, correspondences, correspondencesMade, selectedMarker,
                   selectedCorrespondence, viewState, referenceTrackPanZoom, trackPanZoom>>

\* markers are placed by clicks, dragged by their handles and deleted by keys
NextMarkerDrag ==
    \/ \E i \in 1..Len(projectTracks), time \in PressTimes, x \in PressX,
          pps \in PixelsPerSecond : TrackMouseDown(i, time, x, pps)
    \/ TrackDragUp
    \/ \E time \in {1} : AddReferenceMarker(time)
    \/ \E i \in 1..Len(markers) : MarkerMouseDown(i)
    \/ \E x \in MoveX : MarkerDragMove(x)
    \/ MarkerDragUp
    \/ \E keyCode \in KeyCodes, srcElement \in SrcElements : KeyDown(keyCode, srcElement)

SpecMarkerDrag == InitAlignment /\ [][NextMarkerDrag]_vars

(***************************************************************************)
(* App.onKeyDown and the AlignmentToolbar buttons: file dialogs.           *)
(* The result of an open dialog is null or [files |-> the chosen paths];   *)
(* the result of the save dialog is a path, the empty string or undefined. *)
(***************************************************************************)
\* an open dialog returns at most this many files
MaxFiles == 2

\* the paths a dialog can return, with the text after their last dot
extensionOf ==
    [f \in {"p.json", "d.tsv", "D.TSV", "v.mp4", "n.txt"} |->
        CASE f = "p.json" -> "json"
          [] f = "d.tsv" -> "tsv"
          [] f = "D.TSV" -> "TSV"
          [] f = "v.mp4" -> "mp4"
          [] f = "n.txt" -> "txt"]

FileNames == DOMAIN extensionOf

OpenResults == {nullObject} \cup {[files |-> fs] : fs \in UNION {[1..n -> FileNames] : n \in 0..MaxFiles}}

SaveResults == {undefined, "", "p.json", "n.txt"}

\* event.ctrlKey and event.keyCode
AppKeys == {"O", "S", "X"}

\* the string is truthy
truthy(str) == str \notin {null, undefined, ""}

\* String.toLowerCase, for the i flag of the patterns
toLowerCase(str) == IF str = "TSV" THEN "tsv" ELSE str

\* fileName.match(/\.tsv$/i) and fileName.match(/\.(webm|mp4|mov)$/i)
matchesTsv(f) == toLowerCase(extensionOf[f]) = "tsv"

matchesVideo(f) == toLowerCase(extensionOf[f]) \in {"webm", "mp4", "mov"}

oneFile_nonEmpty(result) == result # nullObject /\ Len(result.files) >= 1

\* fileNames && fileNames.length === 1
oneFile(result) == result # nullObject /\ Len(result.files) = 1

\* an event handled by the app or the toolbar: the call record keeps the event,
\* the store operations invoked and the project file location found
DialogHandled(op, event, calls) ==
    /\ call' = [op |-> op, event |-> event, calls |-> calls,
                before |-> [projectFileLocation |-> projectFileLocation]]
    /\ prev' = NoCall
    /\ UNCHANGED <<historyVars, labelingVars, datasetVars, alignmentVars>>

AppKeyDown_alwaysPrompts(ctrlKey, key) ==
    /\ dialog = "none"
    /\ dialog' = IF ctrlKey /\ key = "O" THEN "openProject"
                 ELSE IF ctrlKey /\ key = "S" THEN "saveProject"
                 ELSE dialog
    /\ DialogHandled("appKeyDown", [ctrlKey |-> ctrlKey, key |-> key], <<>>)
    /\ UNCHANGED projectFileLocation

\* App.onKeyDown(event); saveProject records the location
AppKeyDown(ctrlKey, key) ==
    /\ dialog = "none"
    /\ dialog' = IF ctrlKey /\ key = "O" THEN "openProject"
                 ELSE IF ctrlKey /\ key = "S" /\ ~truthy(projectFileLocation) THEN "saveProject"
                 ELSE dialog
    /\ DialogHandled("appKeyDown", [ctrlKey |-> ctrlKey, key |-> key],
                     IF ctrlKey /\ key = "S" /\ truthy(projectFileLocation)
                     THEN <<[op |-> "saveProject", fileName |-> projectFileLocation]>>
                     ELSE <<>>)
    /\ UNCHANGED projectFileLocation

\* the callback of the open-project dialog; loadProject records the location
OpenProjectResult(result) ==
    /\ dialog = "openProject"
    /\ dialog' = "none"
    /\ projectFileLocation' = IF oneFile(result) THEN result.files[1] ELSE projectFileLocation
    /\ DialogHandled("openProjectResult", result,
                     IF oneFile(result)
                     THEN <<[op |-> "loadProject", fileName |-> result.files[1]]>> ELSE <<>>)

\* the callback of the save-project dialog
SaveProjectResult(fileName) ==
    /\ dialog = "saveProject"
    /\ dialog' = "none"
    /\ projectFileLocation' = IF truthy(fileName) THEN fileName ELSE projectFileLocation
    /\ DialogHandled("saveProjectResult", [fileName |-> fileName],
                     IF truthy(fileName)
                     THEN <<[op |-> "saveProject", fileName |-> fileName]>> ELSE <<>>)

\* loadReferenceVideo() and loadDataOrVideo(): a toolbar button opens its dialog
ToolbarClick(button) ==
    /\ dialog = "none"
    /\ dialog' = button
    /\ DialogHandled("toolbarClick", [button |-> button], <<>>)
    /\ UNCHANGED projectFileLocation

\* the callback of the load-reference-video dialog
LoadReferenceVideoResult(result) ==
    /\ dialog = "loadReferenceVideo"
    /\ dialog' = "none"
    /\ DialogHandled("loadReferenceVideoResult", result,
                     IF oneFile(result)
                     THEN <<[op |-> "loadReferenceTrack", fileName |-> result.files[1]]>>
                     ELSE <<>>)
    /\ UNCHANGED projectFileLocation

\* the callback of the load-sensor-data dialog
LoadDataOrVideoResult(result) ==
    /\ dialog = "loadDataOrVideo"
    /\ dialog' = "none"
    /\ DialogHandled("loadDataOrVideoResult", result,
                     IF oneFile(result)
                     THEN (IF matchesTsv(result.files[1])
                           THEN <<[op |-> "loadSensorTrack", fileName |-> result.files[1]]>>
                           ELSE <<>>)
                          \o (IF matchesVideo(result.files[1])
                              THEN <<[op |-> "loadVideoTrack", fileName |-> result.files[1]]>>
                              ELSE <<>>)
                     ELSE <<>>)
    /\ UNCHANGED projectFileLocation

InitDialogs ==
    /\ HistoryIdle
    /\ LabelingIdle
    /\ DatasetIdle
    /\ AlignmentIdle
    /\ projectFileLocation = null
    /\ dialog = "none"
    /\ call = NoCall
    /\ prev = NoCall

NextDialogs ==
    \/ \E ctrlKey \in BOOLEAN, key \in AppKeys : AppKeyDown(ctrlKey, key)
    \/ \E result \in OpenResults : OpenProjectResult(result)
    \/ \E fileName \in SaveResults : SaveProjectResult(fileName)
    \/ \E button \in {"loadReferenceVideo", "loadDataOrVideo"} : ToolbarClick(button)
    \/ \E result \in OpenResults : LoadReferenceVideoResult(result)
    \/ \E result \in OpenResults : LoadDataOrVideoResult(result)

SpecDialogs == InitDialogs /\ [][NextDialogs]_vars

(***************************************************************************)
(* HistoryTracker claims, checked under SpecHistory.                       *)
(***************************************************************************)
\* C1: after add(s) the undo history is the previous undo history with s appended
\* as its last element, the redo history is empty, canUndo() is true and canRndo()
\* is false, also when the redo history was non-empty before the call.
C1_AddAppendsAndClearsRedo ==
    call.op = "add" =>
        /\ undoHistory = Append(call.undoBefore, call.arg)
        /\ redoHistory = <<>>
        /\ canUndo(tracker)
        /\ ~canRndo(tracker)

C1_Witness == call.op = "add" /\ call.redoBefore # <<>> /\ call.undoBefore # <<>>

\* C2: with a non-empty undo history, p = undo(c) followed by redo(p) returns c and
\* leaves the undo history and the redo history as they were before the undo.
C2_UndoRedoRoundTrip ==
    (/\ prev.op = "undo"
     /\ prev.undoBefore # <<>>
     /\ call.op = "redo"
     /\ call.arg = prev.ret) =>
        /\ call.ret = prev.arg
        /\ undoHistory = prev.undoBefore
        /\ redoHistory = prev.redoBefore

C2_Witness ==
    /\ prev.op = "undo"
    /\ Len(prev.undoBefore) >= 2
    /\ prev.redoBefore # <<>>
    /\ call.op = "redo"
    /\ call.arg = prev.ret
    /\ call.ret # call.arg

\* C3: undo(current) on a non-empty undo history removes and returns the last undo
\* entry and pushes current as the last element of the redo history; on an empty
\* undo history it returns null and leaves both histories unchanged.
C3_UndoContract ==
    call.op = "undo" =>
        IF call.undoBefore # <<>>
        THEN /\ undoHistory = ButLast(call.undoBefore)
             /\ call.ret = Last(call.undoBefore)
             /\ redoHistory = Append(call.redoBefore, call.arg)
        ELSE /\ call.ret = null
             /\ undoHistory = call.undoBefore
             /\ redoHistory = call.redoBefore

C3_Witness ==
    /\ call.op = "undo"
    /\ call.undoBefore = <<>>
    /\ call.redoBefore # <<>>
    /\ call.arg # null

\* C4: redo(current) on a non-empty redo history removes and returns the last redo
\* entry and pushes current as the last element of the undo history; on an empty
\* redo history it returns null and leaves both histories unchanged.
C4_RedoContract ==
    call.op = "redo" =>
        IF call.redoBefore # <<>>
        THEN /\ redoHistory = ButLast(call.redoBefore)
             /\ call.ret = Last(call.redoBefore)
             /\ undoHistory = Append(call.undoBefore, call.arg)
        ELSE /\ call.ret = null
             /\ undoHistory = call.undoBefore
             /\ redoHistory = call.redoBefore

C4_Witness ==
    /\ call.op = "redo"
    /\ Len(call.redoBefore) >= 2
    /\ call.undoBefore # <<>>

\* the undo history after a call is the one before it, or that with one element
\* appended, or that with its last element popped
UndoHistoryStep ==
    \/ undoHistory = call.undoBefore
    \/ \E s \in Snapshots : undoHistory = Append(call.undoBefore, s)
    \/ call.undoBefore # <<>> /\ undoHistory = ButLast(call.undoBefore)

\* C5 as stated: across every operation, reset included, the undo history only
\* changes by an append at its end or a pop of its last element.
C5_UndoNeverTrimmed == call.op # "none" => UndoHistoryStep

\* C5 as amended: add, undo, redo, canUndo and canRndo change the undo history only
\* by an append at its end or a pop of its last element; reset discards the whole
\* undo history and the whole redo history.
C5_UndoTrimmedOnlyByReset ==
    /\ call.op \in {"add", "undo", "redo", "canUndo", "canRndo"} => UndoHistoryStep
    /\ call.op = "reset" => undoHistory = <<>> /\ redoHistory = <<>>

C5_Witness == call.op = "reset" /\ Len(call.undoBefore) >= 2

\* C6: undo (resp. redo) returns null if and only if the undo (resp. redo) history
\* was empty at the call, for every snapshot value, null included.
C6_NullMeansEmpty ==
    /\ call.op = "undo" => (call.ret = null <=> call.undoBefore = <<>>)
    /\ call.op = "redo" => (call.ret = null <=> call.redoBefore = <<>>)

(***************************************************************************)
(* LabelingStore claims.                                                   *)
(***************************************************************************)
Mutators ==
    {"addLabel", "removeLabel", "updateLabel", "removeAllLabels",
     "addClass", "removeClass", "renameClass"}

\* C7 (SpecLabeling): every mutator records the labeling snapshot before it changes
\* any label or class state: the snapshot last handed to the history is the state
\* as it was before the call.
C7_SnapshotBeforeChange ==
    call.op \in Mutators =>
        /\ labelingHistory.undo # <<>>
        /\ Last(labelingHistory.undo) = saveState(call.before)

C7_Witness ==
    /\ call.op = "addClass"
    /\ saveState(store) # saveState(call.before)
    /\ Len(labelingHistory.undo) >= 2

\* C8 (SpecColors): updateColors is idempotent on an unchanged class list: invoking
\* it again leaves classColors and classColormap as they are.
C8_UpdateColorsIdempotent ==
    /\ updateColors(store).classColors = classColors
    /\ updateColors(store).classColormap = classColormap

\* the colors a class list gets when no previous color is known
freshColors(cls) ==
    assignColors(cls, paletteFor(cls), [i \in 1..Len(cls) |-> null], <<>>, 1)

C8_Witness ==
    /\ call.op = "renameClass"
    /\ classes # call.before.classes
    /\ classColors # freshColors(classes)

\* removeClass(a) was followed by addClass(b), b a name that was in the class list
\* neither before nor after the removal
RemovedThenAdded ==
    /\ prev.op = "removeClass"
    /\ call.op = "addClass"
    /\ classes = Append(call.before.classes, Last(classes))
    /\ Last(classes) \notin Range(prev.before.classes)

\* C9 (SpecColors): after removeClass(a) followed by addClass(b), b a different, new
\* name, every class that remained keeps the color it had before the removal and
\* the color of b differs from the color of every remaining class.
C9_RemainingKeepAndNewDiffers ==
    RemovedThenAdded =>
        \A i \in 1..Len(call.before.classes) :
            /\ classes[i] = call.before.classes[i]
            /\ classColors[i] = prev.before.classColormap[classes[i]]
            /\ classColors[Len(classes)] # classColors[i]

C9_Witness ==
    /\ RemovedThenAdded
    /\ Len(call.before.classes) >= 2
    /\ classColors[Len(classes)] \in Range(prev.before.classColors)

\* the colormap updateColors last read: the one before the last call, none after
\* construction
previousColormap ==
    IF call.op = "none" THEN undefinedColormap ELSE call.before.classColormap

knownColor(i) ==
    /\ previousColormap # undefinedColormap
    /\ classes[i] \in DOMAIN previousColormap
    /\ previousColormap[classes[i]] # null

\* the colors in use when class i is given one: those kept from the previous
\* colormap and those given to earlier classes
usedWhenAssigning(i) ==
    {classColors[j] : j \in {k \in 1..Len(classes) : knownColor(k) \/ k < i}}

palette == IF Len(classes) < PaletteThreshold THEN colorbrewer6 ELSE d3category20

C11_RecomputedOnlyOnLabelingTab ==
    /\ alignedDataset_ = labelingRead
    /\ call.op = "alignedDataset" =>
        IF call.tab = "labeling"
        THEN call.ret = makeNewAlignedDataset(call.tracks) /\ alignedDataset_ = call.ret
        ELSE call.ret = call.labelingReadBefore /\ alignedDataset_ = call.labelingReadBefore

\* a read on another tab returns the cached dataset although the tracks changed
C11_Witness ==
    /\ call.op = "alignedDataset"
    /\ call.tab # "labeling"
    /\ call.ret # nullObject
    /\ call.ret # makeNewAlignedDataset(call.tracks)

\* the tracks of the last read that are not null
mergedTracks == SelectSeq(call.tracks, LAMBDA track : track # nullObject)

\* n is Math.ceil((tMax - tMin) * maxSampleRate) for the merged tracks: the least
\* whole number that is at least (tMax - tMin) * (samples - 1) / duration for each
isTotalSamples(n, tMin, tMax) ==
    /\ \A i \in 1..Len(mergedTracks) :
        n * duration(mergedTracks[i]) >= (tMax - tMin) * (mergedTracks[i].samples - 1)
    /\ \E i \in 1..Len(mergedTracks) :
        (n - 1) * duration(mergedTracks[i]) < (tMax - tMin) * (mergedTracks[i].samples - 1)

\* C12 (SpecDataset): makeNewAlignedDataset skips null tracks and makes one sensor
\* for every other track, in order; every column of every sensor has the same
\* number of samples, ceil((tMax - tMin) * maxSampleRate) with tMin the least
\* referenceStart, tMax the greatest referenceEnd and maxSampleRate the greatest
\* (samples - 1) / duration; the dataset and each sensor report timestampStart
\* tMin and timestampEnd tMax.
C12_ResampledToCommonRange ==
    (call.op = "alignedDataset" /\ call.tab = "labeling") =>
        /\ Len(call.ret.sensors) = Len(mergedTracks)
        /\ mergedTracks # <<>> =>
            /\ \E i \in 1..Len(mergedTracks) :
                call.ret.timestampStart = mergedTracks[i].referenceStart
            /\ \A i \in 1..Len(mergedTracks) :
                call.ret.timestampStart <= mergedTracks[i].referenceStart
            /\ \E i \in 1..Len(mergedTracks) :
                call.ret.timestampEnd = mergedTracks[i].referenceEnd
            /\ \A i \in 1..Len(mergedTracks) :
                call.ret.timestampEnd >= mergedTracks[i].referenceEnd
            /\ \A i \in 1..Len(mergedTracks) :
                LET sensor == call.ret.sensors[i] IN
                /\ sensor.timestampStart = call.ret.timestampStart
                /\ sensor.timestampEnd = call.ret.timestampEnd
                /\ Len(sensor.dimensions) = mergedTracks[i].dimensions
                /\ \A d \in 1..Len(sensor.dimensions) :
                    isTotalSamples(sensor.dimensions[d], call.ret.timestampStart,
                                   call.ret.timestampEnd)

\* two tracks of different ranges and rates are merged, and the sample count is
\* rounded up
C12_Witness ==
    /\ call.op = "alignedDataset"
    /\ call.tab = "labeling"
    /\ Len(mergedTracks) = 2
    /\ mergedTracks[1].referenceStart # mergedTracks[2].referenceStart
    /\ sampleRate(mergedTracks[1]) # sampleRate(mergedTracks[2])
    /\ \A i \in 1..2 :
        call.ret.sensors[1].dimensions[1] * duration(mergedTracks[i])
            > (call.ret.timestampEnd - call.ret.timestampStart) * (mergedTracks[i].samples - 1)

(***************************************************************************)
(* AlignmentView claims, checked under SpecAlignment and SpecTrackGestures.*)
(***************************************************************************)
\* the tracks in the order they are shown: the reference track on top
visibleOrder == <<referenceTrack>> \o trackIds

visibleIndex(marker) == indexOf(visibleOrder, markerObjects[marker].track)

\* C13 (SpecAlignment): during a correspondence gesture, a move over a marker whose
\* track is not at distance exactly 1 from the start marker's track in the visible
\* order, or over the start marker itself, leaves markerTarget null.
C13_NonAdjacentNeverCandidate ==
    (call.op = "correspondenceMove" /\ call.event.hovered # nullMarker) =>
        ((\/ call.event.hovered = drag.marker
          \/ Abs(visibleIndex(call.event.hovered) - visibleIndex(drag.marker)) # 1)
            => viewState.markerTarget = nullMarker)

\* a marker two tracks away from the start marker is hovered
C13_Witness ==
    /\ call.op = "correspondenceMove"
    /\ call.event.hovered # nullMarker
    /\ call.event.hovered # drag.marker
    /\ Abs(visibleIndex(call.event.hovered) - visibleIndex(drag.marker)) = 2
    /\ viewState.markerTarget = nullMarker

\* C14 (SpecAlignment): on release of a correspondence gesture a correspondence
\* (start marker, candidate) is added and selected if and only if the last move
\* left a candidate that is not null and not the start marker; otherwise nothing
\* is added.  Either way isCreatingCorrespondence is false and markerStart,
\* markerTarget, markerStartKnob and currentPosition are null.
C14_ReleaseCommitsOrCancels ==
    call.op = "correspondenceUp" =>
        /\ viewState.isCreatingCorrespondence = FALSE
        /\ viewState.markerStart = nullMarker
        /\ viewState.markerTarget = nullMarker
        /\ viewState.markerStartKnob = null
        /\ viewState.currentPosition = nullObject
        /\ IF call.before.markerTarget # nullMarker /\ call.before.markerTarget # call.event.marker
           THEN /\ Len(correspondences) = Len(call.before.correspondences) + 1
                /\ SubSeq(correspondences, 1, Len(call.before.correspondences))
                        = call.before.correspondences
                /\ Last(correspondences).marker1 = call.event.marker
                /\ Last(correspondences).marker2 = call.before.markerTarget
                /\ Last(correspondences) \notin Range(call.before.correspondences)
                /\ selectedCorrespondence = Last(correspondences)
           ELSE correspondences = call.before.correspondences

\* a release over an adjacent marker adds a correspondence
C14_Witness ==
    /\ call.op = "correspondenceUp"
    /\ call.before.markerTarget # nullMarker
    /\ Len(correspondences) = Len(call.before.correspondences) + 1
    /\ selectedCorrespondence = Last(correspondences)

\* the pan-zoom values are those the gesture found at the press
panAsPressed(d) ==
    /\ referenceTrackPanZoom.rangeStart = d.referenceRangeStart
    /\ trackPanZoom[projectTracks[d.track].id].rangeStart = d.rangeStart

\* C15 (SpecTrackGestures): a press outside the track's timestamp bounds starts no
\* gesture.  A gesture has moved once a move is 3 pixels or more from the press,
\* and stays moved.  While it has not moved no pan-zoom changes, and its release
\* adds one marker at the pressed time on the pressed track and selects it; once
\* it has moved its release adds no marker.
C15_ClickAddsMarkerDragPans ==
    /\ call.op = "trackMouseDown" =>
        IF \/ call.event.time < projectTracks[call.event.track].timestampStart
           \/ call.event.time > projectTracks[call.event.track].timestampEnd
        THEN drag = NoDrag
        ELSE drag.kind = "track" /\ ~drag.moved /\ panAsPressed(drag)
    /\ call.op = "trackMove" =>
        /\ drag.moved = (call.before.moved \/ Abs(call.event.x1 - drag.x0) >= 3)
        /\ ~drag.moved => panAsPressed(drag)
        /\ drag.moved =>
            IF projectTracks[drag.track].isAlignedToReferenceTrack
            THEN (drag.referenceRangeStart - referenceTrackPanZoom.rangeStart)
                    * referenceTrackPanZoom.pixelsPerSecond = call.event.x1 - drag.x0
            ELSE (drag.rangeStart - trackPanZoom[projectTracks[drag.track].id].rangeStart)
                    * drag.pps = call.event.x1 - drag.x0
    /\ call.op = "trackUp" =>
        IF ~call.before.drag.moved
        THEN /\ panAsPressed(call.before.drag)
             /\ Len(markers) = Len(call.before.markers) + 1
             /\ SubSeq(markers, 1, Len(call.before.markers)) = call.before.markers
             /\ Last(markers) \notin Range(call.before.markers)
             /\ markerObjects[Last(markers)] =
                    [track |-> projectTracks[call.before.drag.track].id,
                     localTimestamp |-> call.before.drag.time]
             /\ selectedMarker = Last(markers)
        ELSE markers = call.before.markers

\* a press, a move of less than 3 pixels and a release add a marker
C15_Witness ==
    /\ call.op = "trackUp"
    /\ ~call.before.drag.moved
    /\ call.event.x # call.before.drag.x0
    /\ Len(markers) = Len(call.before.markers) + 1

\* C16 (SpecAlignment): Backspace or Delete from the document body deletes the
\* selected marker if there is one, and then no correspondence; otherwise it
\* deletes the selected correspondence if there is one; with nothing selected,
\* another key or another event source nothing is deleted.
C16_DeleteKey ==
    call.op = "keyDown" =>
        LET deletes == /\ call.event.srcElement = "body"
                       /\ call.event.keyCode \in {"BACKSPACE", "DELETE"}
        IN IF deletes /\ selectedMarker # nullMarker
           THEN /\ call.calls = <<[op |-> "deleteMarker", marker |-> selectedMarker]>>
                /\ selectedMarker \notin Range(markers)
                /\ markers = SelectSeq(call.before.markers, LAMBDA m : m # selectedMarker)
                /\ correspondences = call.before.correspondences
           ELSE IF deletes /\ selectedCorrespondence # nullObject
           THEN /\ call.calls = <<[op |-> "deleteMarkerCorrespondence",
                                   correspondence |-> selectedCorrespondence]>>
                /\ selectedCorrespondence \notin Range(correspondences)
                /\ correspondences = SelectSeq(call.before.correspondences,
                                               LAMBDA c : c # selectedCorrespondence)
                /\ markers = call.before.markers
           ELSE /\ call.calls = <<>>
                /\ markers = call.before.markers
                /\ correspondences = call.before.correspondences

\* Delete removes the selected correspondence and no marker
C16_Witness ==
    /\ call.op = "keyDown"
    /\ call.event.keyCode = "DELETE"
    /\ selectedMarker = nullMarker
    /\ call.calls = <<[op |-> "deleteMarkerCorrespondence",
                       correspondence |-> selectedCorrespondence]>>
    /\ Len(correspondences) = Len(call.before.correspondences) - 1
    /\ Len(markers) = 2

(***************************************************************************)
(* File dialog claims, checked under SpecDialogs.                          *)
(***************************************************************************)
\* C17 (SpecDialogs): Ctrl-S with a project file location set saves to that
\* location and opens no dialog; with none set it opens the save dialog and saves
\* nothing, and the dialog's callback saves to the returned path only if that is
\* a non-empty file name.
C17_CtrlS ==
    /\ (call.op = "appKeyDown" /\ call.event.ctrlKey /\ call.event.key = "S") =>
        IF call.before.projectFileLocation \notin {null, undefined, ""}
        THEN /\ call.calls = <<[op |-> "saveProject",
                                fileName |-> call.before.projectFileLocation]>>
             /\ dialog = "none"
        ELSE /\ call.calls = <<>>
             /\ dialog = "saveProject"
    /\ call.op = "saveProjectResult" =>
        IF call.event.fileName \notin {null, undefined, ""}
        THEN call.calls = <<[op |-> "saveProject", fileName |-> call.event.fileName]>>
        ELSE call.calls = <<>>

\* Ctrl-S saves to the location of an earlier save without a dialog
C17_Witness ==
    /\ call.op = "appKeyDown"
    /\ call.event.ctrlKey
    /\ call.event.key = "S"
    /\ call.calls = <<[op |-> "saveProject", fileName |-> "n.txt"]>>
    /\ dialog = "none"

\* the result of a dialog is a cancellation
cancelled ==
    IF call.op = "saveProjectResult" THEN call.event.fileName \in {null, undefined, ""}
    ELSE call.event = nullObject \/ Len(call.event.files) # 1

\* C18 (SpecDialogs): the callback of the open-project, save-project,
\* load-reference-video or load-sensor-data dialog with a null or empty result, or
\* for the open dialogs a result that is not exactly one file, invokes no store
\* operation.
C18_CancelIsNoOp ==
    (/\ call.op \in {"openProjectResult", "saveProjectResult", "loadReferenceVideoResult",
                     "loadDataOrVideoResult"}
     /\ cancelled) =>
        /\ call.calls = <<>>
        /\ projectFileLocation = call.before.projectFileLocation
        /\ dialog = "none"

\* an open dialog returns two files and nothing is loaded
C18_Witness ==
    /\ call.op = "loadDataOrVideoResult"
    /\ call.event # nullObject
    /\ Len(call.event.files) = 2
    /\ call.calls = <<>>

(***************************************************************************)
(* Class removal and renaming claims, checked under SpecLabeling.          *)
(***************************************************************************)
\* the store after the step
storeAfter ==
    [classes |-> classes', classColors |-> classColors', classColormap |-> classColormap',
     labelObjects |-> labelObjects', labelsIndex |-> labelsIndex', currentClass |-> currentClass']

\* the labels of the index are those of before except those of class c
labelsLessClass(c) ==
    /\ labelsIndex' = {id \in labelsIndex : labelObjects[id].className # c}
    /\ \A id \in labelsIndex' : labelObjects'[id] = labelObjects[id]

\* C19 (SpecLabeling): after removeClass(c) no label of the index has className c
\* and c is not in classes; the labels of the other classes are unchanged and the
\* remaining classes keep their order.  The labels of c are removed also when c
\* was not in the class list.
C19_RemoveClass ==
    [][\A c \in LabelClassNames : RemoveClass(c) =>
        /\ \A id \in labelsIndex' : labelObjects'[id].className # c
        /\ c \notin Range(classes')
        /\ labelsLessClass(c)
        /\ classes' = SelectSeq(classes, LAMBDA x : x # c)]_vars

\* removeClass removed labels of a class that was not in the class list
C19_Witness ==
    /\ call.op = "removeClass"
    /\ labelsIndex # call.before.labelsIndex
    /\ classes = call.before.classes

\* the labels of the index after the step are those of before, with className n
\* in place of className o
labelsRenamed(o, n) ==
    /\ labelsIndex' = labelsIndex
    /\ \A id \in labelsIndex :
        labelObjects'[id] = IF labelObjects[id].className = o
                            THEN [labelObjects[id] EXCEPT !.className = n]
                            ELSE labelObjects[id]

\* n stands in classes where o stood
classReplaced(o, n) ==
    /\ o \in Range(classes)
    /\ classes' = [classes EXCEPT ![indexOf(classes, o)] = n]

\* every label of the index with className n has n in the class list, after the step
labelsOfClassListed(n) ==
    \A id \in labelsIndex' : labelObjects'[id].className = n => n \in Range(classes')

\* C20 as claimed (SpecLabeling): renameClass(old, new) leaves classes, class colors
\* and labels unchanged when new is a class name; otherwise every label of old gets
\* className new, old is replaced by new at its position in classes and the
\* current class becomes new.  Afterwards every label of className new has new in
\* the class list.
C20_RenameAlwaysLists ==
    [][\A o, n \in LabelClassNames : RenameClass(o, n) =>
        /\ IF n \in Range(classes)
           THEN /\ classes' = classes
                /\ classColors' = classColors
                /\ labels(storeAfter) = labels(store)
           ELSE /\ labelsRenamed(o, n)
                /\ classReplaced(o, n)
                /\ currentClass' = n
        /\ labelsOfClassListed(n)]_vars

\* C20 as amended (SpecLabeling): renameClass(old, new) leaves classes, class colors
\* and labels unchanged when new is a class name; otherwise every label of old gets
\* className new, and if old is in classes it is replaced by new at its position
\* and the current class becomes new, while if old is not in classes the classes,
\* their colors and the current class are unchanged.  If old or new was in the
\* class list, afterwards every label of className new has new in the class list.
C20_RenameListedClass ==
    [][\A o, n \in LabelClassNames : RenameClass(o, n) =>
        /\ IF n \in Range(classes)
           THEN /\ classes' = classes
                /\ classColors' = classColors
                /\ labels(storeAfter) = labels(store)
           ELSE /\ labelsRenamed(o, n)
                /\ IF o \in Range(classes)
                   THEN classReplaced(o, n) /\ currentClass' = n
                   ELSE /\ classes' = classes
                        /\ classColors' = classColors
                        /\ currentClass' = currentClass
        /\ (o \in Range(classes) \/ n \in Range(classes)) => labelsOfClassListed(n)]_vars

\* renameClass renamed the labels of a class that was not in the class list: they
\* now have a className that is not in the class list either
C20_Witness ==
    /\ call.op = "renameClass"
    /\ classes = call.before.classes
    /\ \E id \in labelsIndex :
        /\ labelObjects[id].className # call.before.labelObjects[id].className
        /\ labelObjects[id].className \notin Range(classes)

(***************************************************************************)
(* C21: within one marker-drag gesture exactly the first move event calls  *)
(* updateMarker with isFirstUpdate = true and every later move calls it    *)
(* with false, all for the pressed marker and with recompute = false; the  *)
(* release issues exactly one updateMarker, for the same marker, with the  *)
(* marker's localTimestamp at that moment (the time of the last move, if   *)
(* there was one) and the flags (true, false); a press followed by the     *)
(* release issues only that final call.                                    *)
(***************************************************************************)
\* the updateMarker calls of the moves of one gesture on marker
moveUpdates(updates, marker) ==
    \A j \in 1..Len(updates) :
        /\ updates[j].op = "updateMarker"
        /\ updates[j].marker = marker
        /\ updates[j].recompute = FALSE
        /\ updates[j].isFirstUpdate = (j = 1)

C21_MarkerDragUpdates ==
    /\ drag.kind = "marker" => moveUpdates(drag.updates, drag.marker)
    /\ call.op = "markerMove" =>
          /\ drag.updates = Append(call.before.updates, call.calls[1])
          /\ \A j \in 2..Len(call.calls) : call.calls[j].op # "updateMarker"
    /\ call.op = "markerUp" =>
          /\ moveUpdates(call.before.updates, call.event.marker)
          /\ call.calls = <<UpdateMarkerCall(call.event.marker,
                                             markerObjects[call.event.marker].localTimestamp,
                                             TRUE, FALSE)>>
          /\ call.before.updates # <<>> =>
                call.calls[1].newT = Last(call.before.updates).newT

C21_Witness ==
    /\ call.op = "markerUp"
    /\ Len(call.before.updates) >= 2
    /\ call.before.updates[1].newT # call.calls[1].newT

(***************************************************************************)
(* C22: for a caller that follows the documented usage, every undo and     *)
(* every redo leaves unchanged the timeline made of the undo history, then *)
(* the current snapshot, then the redo history in reverse order, and with  *)
(* it the number of snapshots the tracker stores (so that snapshots come   *)
(* back in LIFO order and k undos followed by k redos restore the current  *)
(* snapshot and both histories).                                           *)
(***************************************************************************)
Reverse(s) == [i \in 1..Len(s) |-> s[Len(s) + 1 - i]]

\* u3 - u2 - u1 - [ current ] - r1 - r2 - r3
timeline(undoList, snapshot, redoList) == undoList \o <<snapshot>> \o Reverse(redoList)

C22_TimelineUnchanged ==
    call.op \in {"undo", "redo"} =>
        /\ timeline(undoHistory, currentSnapshot, redoHistory)
              = timeline(call.undoBefore, call.arg, call.redoBefore)
        /\ Len(undoHistory) + Len(redoHistory) = Len(call.undoBefore) + Len(call.redoBefore)

C24_ResetEqualsFresh ==
    call.op = "reset" =>
        /\ classes = LabelingStore.classes
        /\ labelsIndex = {}
        /\ currentClass = "Positive"
        /\ classColors = LabelingStore.classColors
        /\ classColormap = LabelingStore.classColormap

\* the color 'Positive' has after a reset of a store whose colormap was cmap
positiveColorAfterReset(cmap) ==
    IF "Positive" \in DOMAIN cmap /\ cmap["Positive"] # null
    THEN cmap["Positive"]
    ELSE LabelingStore.classColormap["Positive"]

(***************************************************************************)
(* C24, amended: reset() leaves classes ['IGNORE', 'Positive'], no label   *)
(* and the current class 'Positive'; 'IGNORE' has the color of a new store *)
(* and 'Positive' keeps the color the colormap held for it before the      *)
(* reset, getting the color of a new store only if the colormap held none. *)
(***************************************************************************)
C24_ResetKeepsPositiveColor ==
    call.op = "reset" =>
        /\ classes = <<"IGNORE", "Positive">>
        /\ labelsIndex = {}
        /\ currentClass = "Positive"
        /\ classColors = <<LabelingStore.classColormap["IGNORE"],
                           positiveColorAfterReset(call.before.classColormap)>>
        /\ DOMAIN classColormap = {"IGNORE", "Positive"}
        /\ \A i \in 1..2 : classColormap[classes[i]] = classColors[i]

\* a reset after which 'Positive' has another color than in a new store
C24_Witness ==
    /\ call.op = "reset"
    /\ classColors # LabelingStore.classColors
    /\ Len(call.before.classes) >= 3

(***************************************************************************)
(* C25: under every interleaving of the moves and the release of a         *)
(* correspondence gesture with Backspace/Delete key presses, a             *)
(* correspondence added by the release links two distinct markers on two   *)
(* different tracks, both of them held by the alignment store when the     *)
(* correspondence is added.                                                *)
(***************************************************************************)
C25_AddedCorrespondenceLinksPresentMarkers ==
    (call.op = "correspondenceUp" /\ call.calls # <<>>) =>
        LET corr == call.calls[1].correspondence IN
        /\ corr.marker1 # corr.marker2
        /\ markerObjects[corr.marker1].track # markerObjects[corr.marker2].track
        /\ corr.marker1 \in Range(markers)
        /\ corr.marker2 \in Range(markers)

====
